---------------------------- MODULE Spec2Model ----------------------------
(***************************************************************************)
(* A model of bokehgraph.BokehGraph (src/bokehgraph/bokehgraph.py): the    *)
(* object's fields after construction, and the public operations layout()  *)
(* and draw()/render() with everything they call (gen_edge_coordinates,     *)
(* gen_node_coordinates, _render_edges, _render_nodes).                     *)
(*                                                                         *)
(* Python values are represented as follows.                               *)
(*   - a dict or a list of pairs is a sequence of <<key, value>> pairs in   *)
(*     iteration order; None and the empty dict/list are both the empty     *)
(*     sequence wherever the code only tests truthiness ("if not x");       *)
(*   - an attribute mapping is a function whose DOMAIN is the set of keys   *)
(*     present; reading an absent key raises KeyError;                      *)
(*   - a table (dict of columns) is a function from column names to         *)
(*     sequences; None is the table with no columns;                        *)
(*   - a raised exception is the field err of the result, "" when the call  *)
(*     returned normally.                                                   *)
(* Node identifiers are small integers, for which CPython iterates a set   *)
(* in ascending order.                                                      *)
(***************************************************************************)
EXTENDS Integers, Sequences, FiniteSets, TLC

\* The largest number of nodes of an input graph.
MaxNodes == 3

\* Seeds the spring solver can run with (seed=None draws one of them).
Seeds == {1, 2}

NoErr == ""

-----------------------------------------------------------------------------
(* Generic helpers for Python containers.                                  *)

RECURSIVE SortedSeq(_)
\* list(S) for a set S of small integers: ascending order.
SortedSeq(S) ==
    IF S = {} THEN << >>
    ELSE LET m == CHOOSE x \in S : \A y \in S : x <= y
         IN  <<m>> \o SortedSeq(S \ {m})

Range(s) == {s[i] : i \in DOMAIN s}

\* The keys of a dict held as a sequence of <<key, value>> pairs.
Keys(d) == {d[i][1] : i \in DOMAIN d}

HasKey(d, k) == k \in Keys(d)

\* d[k] for a key that is present.
Lookup(d, k) == d[CHOOSE i \in DOMAIN d : d[i][1] = k][2]

EmptyTable == [c \in {} |-> << >>]

\* table[col] = values
WithColumn(table, col, values) ==
    [c \in (DOMAIN table) \cup {col} |-> IF c = col THEN values ELSE table[c]]

\* sorted(names) for the attribute names the inputs use.
AttrOrder == <<"bipartite", "ew", "w">>

Sorted(names) == SelectSeq(AttrOrder, LAMBDA a : a \in names)

-----------------------------------------------------------------------------
(* The input graphs (networkx.Graph): nodes in iteration order, edges in   *)
(* iteration order, one attribute mapping per node and per edge.           *)

NodeSet(g) == Range(g.nodes)

NodeList(n) == [i \in 1..n |-> i]

AllPairs(n) == {<<u, v>> \in (1..n) \X (1..n) : u < v}

RECURSIVE EdgeList(_)
\* Graph.edges(): by first endpoint in node order, then by neighbour.
EdgeList(E) ==
    IF E = {} THEN << >>
    ELSE LET e == CHOOSE x \in E : \A y \in E :
                     x[1] < y[1] \/ (x[1] = y[1] /\ x[2] <= y[2])
         IN  <<e>> \o EdgeList(E \ {e})

\* A side labelling never puts both ends of an edge on one side.
Labellings(n, E) == {f \in [1..n -> {0, 1}] : \A e \in E : f[e[1]] # f[e[2]]}

\* Either no node carries the side indicator "bipartite", or every node
\* carries the one of a side labelling.
SideChoices(n, E) ==
    {[has |-> FALSE, of |-> [v \in 1..n |-> 0]]}
    \cup {[has |-> TRUE, of |-> f] : f \in Labellings(n, E)}

NodeData(n, hasSide, side, wset) ==
    [a \in (IF hasSide THEN {"bipartite"} ELSE {}) \cup
           (IF n \in wset THEN {"w"} ELSE {})
        |-> IF a = "bipartite" THEN side[n] ELSE 10 + n]

EdgeData(i, ewset) ==
    [a \in (IF i \in ewset THEN {"ew"} ELSE {}) |-> 20 + i]

MakeGraph(n, E, hasSide, side, wset, ewset) ==
    LET edges == EdgeList(E)
    IN  [nodes |-> NodeList(n),
         edges |-> edges,
         ndata |-> [v \in 1..n |-> NodeData(v, hasSide, side, wset)],
         edata |-> [i \in DOMAIN edges |-> EdgeData(i, ewset)]]

\* An attribute is on every node (edge), on none, or on all but the first.
AttrChoices(k) == {{}, 1..k, 2..k}

Graphs ==
    UNION {
      UNION {
        { MakeGraph(n, E, side.has, side.of, wset, ewset) :
            side \in SideChoices(n, E),
            wset \in AttrChoices(n),
            ewset \in AttrChoices(Cardinality(E)) }
        : E \in SUBSET AllPairs(n) }
      : n \in 0..MaxNodes }

-----------------------------------------------------------------------------
(* networkx, as the code uses it.                                          *)

number_of_nodes(g) == Len(g.nodes)

number_of_edges(g) == Len(g.edges)

\* G[v]: the neighbours of v, in edge order.
Neighbors(g, v) ==
    LET inc == SelectSeq(g.edges, LAMBDA e : e[1] = v \/ e[2] = v)
    IN  [i \in DOMAIN inc |-> IF inc[i][1] = v THEN inc[i][2] ELSE inc[i][1]]

RECURSIVE ColorFrom(_, _, _)
\* The inner loop of networkx.algorithms.bipartite.color: pop a node, give
\* its uncoloured neighbours the opposite colour, fail on an equal colour.
ColorFrom(g, color, queue) ==
    IF queue = << >> THEN [ok |-> TRUE, color |-> color]
    ELSE LET v    == queue[Len(queue)]
             rest == SubSeq(queue, 1, Len(queue) - 1)
             nbrs == Neighbors(g, v)
             c    == 1 - color[v]
             fresh == SelectSeq(nbrs, LAMBDA w : w \notin DOMAIN color)
         IN  IF \E i \in DOMAIN nbrs :
                    nbrs[i] \in DOMAIN color /\ color[nbrs[i]] = color[v]
             THEN [ok |-> FALSE, color |-> color]
             ELSE ColorFrom(g,
                            [w \in (DOMAIN color) \cup Range(fresh) |->
                                IF w \in DOMAIN color THEN color[w] ELSE c],
                            rest \o fresh)

RECURSIVE ColorNodes(_, _, _)
\* The outer loop of bipartite.color: every uncoloured node with a
\* neighbour starts a component with colour 1; isolates get colour 0.
ColorNodes(g, i, color) ==
    IF i > Len(g.nodes)
    THEN [ok |-> TRUE,
          color |-> [w \in NodeSet(g) |->
                        IF w \in DOMAIN color THEN color[w] ELSE 0]]
    ELSE LET n == g.nodes[i]
         IN  IF n \in DOMAIN color \/ Len(Neighbors(g, n)) = 0
             THEN ColorNodes(g, i + 1, color)
             ELSE LET r == ColorFrom(g, [w \in (DOMAIN color) \cup {n} |->
                                IF w = n THEN 1 ELSE color[w]], <<n>>)
                  IN  IF r.ok THEN ColorNodes(g, i + 1, r.color) ELSE r

Color(g) == ColorNodes(g, 1, [w \in {} |-> 0])

\* nx.is_bipartite: bipartite.color does not raise.
is_bipartite(g) == Color(g).ok

RECURSIVE Reach(_, _)
Reach(g, S) ==
    LET T == S \cup {e[2] : e \in {x \in Range(g.edges) : x[1] \in S}}
                \cup {e[1] : e \in {x \in Range(g.edges) : x[2] \in S}}
    IN  IF T = S THEN S ELSE Reach(g, T)

\* nx.is_connected, for a graph with at least one node.
is_connected(g) == Reach(g, {g.nodes[1]}) = NodeSet(g)

\* nx.bipartite.sets(G): (X, Y), X the nodes coloured 1; raises
\* AmbiguousSolution for a disconnected graph.
bipartite_sets(g) ==
    IF ~is_connected(g)
    THEN [err |-> "AmbiguousSolution", X |-> {}, Y |-> {}]
    ELSE LET c == Color(g).color
         IN  [err |-> NoErr,
              X |-> {n \in NodeSet(g) : c[n] = 1},
              Y |-> {n \in NodeSet(g) : c[n] = 0}]

\* nx.spring_layout(G, seed=s): one position per node, in node order; the
\* positions depend on the seed.
spring_layout(g, seed) ==
    [i \in DOMAIN g.nodes |-> <<g.nodes[i], <<10 * seed + g.nodes[i], g.nodes[i]>>>>]

\* nx.bipartite_layout(G, top, align="vertical"): the top nodes in one
\* column, the others in a second, top nodes first.
bipartite_layout(g, top) ==
    LET first  == SelectSeq(g.nodes, LAMBDA n : n \in top)
        second == SelectSeq(g.nodes, LAMBDA n : n \notin top)
        order  == first \o second
    IN  [i \in DOMAIN order |->
            <<order[i], <<IF i <= Len(first) THEN 0 ELSE 1, i>>>>]


-----------------------------------------------------------------------------
(* BokehGraphColorMap(palette, max_colors).map(values), of the module      *)
(* colormap: one colour per value, in order, equal values getting equal    *)
(* colours; an empty value sequence has no ramp.                           *)

ColorMapFails(values) == values = << >>

ColorMapMap(palette, values) ==
    [i \in DOMAIN values |-> <<palette, values[i]>>]

-----------------------------------------------------------------------------
(* BokehGraph.__init__                                                     *)

\* A flag that leaves the edge count out.
BipartiteFlagNoEdgeTest(g) == IF is_bipartite(g) THEN 1 ELSE 0

\* self.bipartite
BipartiteFlag(g) ==
    IF is_bipartite(g) /\ number_of_edges(g) > 0 THEN 1 ELSE 0

\* data["bipartite"] is read for every node of a bipartite graph.
InitRaises(g) ==
    BipartiteFlag(g) = 1 /\ \E n \in NodeSet(g) : "bipartite" \notin DOMAIN g.ndata[n]

\* The attribute names of the nodes whose side indicator is `side`.
SideAttributes(g, side) ==
    Sorted(UNION {DOMAIN g.ndata[n] :
                    n \in {m \in NodeSet(g) : g.ndata[m]["bipartite"] = side}})

AllNodeAttributes(g) == Sorted(UNION {DOMAIN g.ndata[n] : n \in NodeSet(g)})

EdgeAttributes(g) == Sorted(UNION {DOMAIN g.edata[i] : i \in DOMAIN g.edata})

\* self._edges = None
NoEdgeCoordinates == [set |-> FALSE, xs |-> << >>, ys |-> << >>]

\* The instance after __init__(graph, hover_nodes=hover), when it returns.
NewBokehGraph(g, hover) ==
    LET bip == BipartiteFlag(g)
    IN  [graph |-> g,
         hover_nodes |-> hover,
         layout |-> << >>,
         nodes |-> << >>,
         edges |-> NoEdgeCoordinates,
         bipartite |-> bip,
         node_properties_lv0 |-> EmptyTable,
         node_properties_lv1 |-> EmptyTable,
         node_attributes_lv0 |->
             IF bip = 1 THEN SideAttributes(g, 0) ELSE AllNodeAttributes(g),
         node_attributes_lv1 |->
             IF bip = 1 THEN SideAttributes(g, 1) ELSE << >>,
         edge_properties |-> EmptyTable,
         edge_attributes |-> EdgeAttributes(g)]

-----------------------------------------------------------------------------
(* BokehGraph.layout                                                       *)

Returned(s, err, ran) == [self |-> s, err |-> err, solverRan |-> ran]

\* A layout() that forgets to clear the caches.
ClearCachesForgotten(s) == s

\* The caches layout() clears before anything else.
ClearCaches(s) == [s EXCEPT !.nodes = << >>, !.edges = NoEdgeCoordinates]

\* layout(layout=M, seed=seed); M = << >> is layout=None or an empty dict,
\* which "not layout" does not tell apart.
layout(s, M, seed) ==
    LET s1 == ClearCaches(s)
        g  == s.graph
    IN  IF M = << >> /\ s.bipartite = 0
        THEN IF number_of_nodes(g) = 0
             THEN \* 1 / sqrt(0 * shrink_factor)
                  Returned(s1, "ZeroDivisionError", FALSE)
             ELSE Returned([s1 EXCEPT !.layout = spring_layout(g, seed)],
                           NoErr, TRUE)
        ELSE IF M = << >> /\ s.bipartite = 1
        THEN Returned([s1 EXCEPT !.layout =
                          bipartite_layout(g, {n \in NodeSet(g) :
                                                g.ndata[n]["bipartite"] = 1})],
                      NoErr, TRUE)
        ELSE Returned([s1 EXCEPT !.layout = M], NoErr, FALSE)

-----------------------------------------------------------------------------
(* BokehGraph.gen_edge_coordinates and gen_node_coordinates                *)

\* "if not self._layout: self.layout()"
EnsureLayout(s, seed) ==
    IF s.layout = << >> THEN layout(s, << >>, seed) ELSE Returned(s, NoErr, FALSE)

\* The edge polylines of a layout: one [x_from, x_to] and one
\* [y_from, y_to] per edge, in edge order.
EdgeCoordinates(g, lay) ==
    [set |-> TRUE,
     xs |-> [i \in DOMAIN g.edges |->
               <<Lookup(lay, g.edges[i][1])[1], Lookup(lay, g.edges[i][2])[1]>>],
     ys |-> [i \in DOMAIN g.edges |->
               <<Lookup(lay, g.edges[i][1])[2], Lookup(lay, g.edges[i][2])[2]>>]]

\* self._layout[edge[0]] or self._layout[edge[1]] raises KeyError.
EdgeCoordinatesRaise(g, lay) ==
    \E i \in DOMAIN g.edges : ~HasKey(lay, g.edges[i][1]) \/ ~HasKey(lay, g.edges[i][2])

\* The body of gen_edge_coordinates after the layout `r` was ensured.
EdgeCoordinatesWith(r) ==
    IF r.err # NoErr
    THEN [r |-> r, val |-> NoEdgeCoordinates]
    ELSE IF EdgeCoordinatesRaise(r.self.graph, r.self.layout)
    THEN [r |-> [r EXCEPT !.err = "KeyError"], val |-> NoEdgeCoordinates]
    ELSE [r |-> r, val |-> EdgeCoordinates(r.self.graph, r.self.layout)]

gen_edge_coordinates(s, seed) == EdgeCoordinatesWith(EnsureLayout(s, seed))

\* The node(name, x, y) list of a layout, in the layout's order.
NodeCoordinates(lay) ==
    [i \in DOMAIN lay |-> [name |-> lay[i][1], x |-> lay[i][2][1], y |-> lay[i][2][2]]]

\* The body of gen_node_coordinates after the layout `r` was ensured.
NodeCoordinatesWith(r) ==
    IF r.err # NoErr
    THEN [r |-> r, val |-> << >>]
    ELSE IF r.self.layout = << >>
    THEN \* names, coords = zip(*{}.items())
         [r |-> [r EXCEPT !.err = "ValueError"], val |-> << >>]
    ELSE [r |-> r, val |-> NodeCoordinates(r.self.layout)]

gen_node_coordinates(s, seed) == NodeCoordinatesWith(EnsureLayout(s, seed))

-----------------------------------------------------------------------------
(* BokehGraph._render_edges                                                *)

\* [data[attr] for _, _, data in graph.edges(data=True)] raises KeyError
\* when an edge has no such attribute.
EdgeColumnRaises(g, attr) == \E i \in DOMAIN g.edata : attr \notin DOMAIN g.edata[i]

EdgeColumn(g, attr) == [i \in DOMAIN g.edata |-> g.edata[i][attr]]

RECURSIVE EdgeAttrColumns(_, _, _, _)
\* for attr in self.edge_attributes: self.edge_properties[attr] = [...]
EdgeAttrColumns(g, attrs, i, table) ==
    IF i > Len(attrs) THEN [table |-> table, err |-> NoErr]
    ELSE IF EdgeColumnRaises(g, attrs[i])
    THEN [table |-> table, err |-> "KeyError"]
    ELSE EdgeAttrColumns(g, attrs, i + 1,
                         WithColumn(table, attrs[i], EdgeColumn(g, attrs[i])))

\* self.edge_properties = dict(xs=self._edges.xs, ys=self._edges.ys)
EdgeCoordinateTable(coords) ==
    [col \in {"xs", "ys"} |-> IF col = "xs" THEN coords.xs ELSE coords.ys]

\* xs, ys = list(zip(*graph.edges())) raises ValueError without edges, and
\* the code then leaves _u and _v out.
EdgeIdentityColumns(g, table) ==
    IF number_of_edges(g) = 0 THEN table
    ELSE WithColumn(WithColumn(table, "_u", [i \in DOMAIN g.edges |-> g.edges[i][1]]),
                    "_v", [i \in DOMAIN g.edges |-> g.edges[i][2]])

\* What _render_edges leaves behind: the instance, the exception if any,
\* whether a solver ran, and the colour and alpha keys of the edge glyph.
EdgesRendered(s, err, ran, color, alpha) ==
    [self |-> s, err |-> err, solverRan |-> ran, color |-> color, alpha |-> alpha]

\* The alpha resolution and the multi_line call, given the table `t` the
\* colour resolution left.
EdgeAlpha(s, ran, t, color, edge_alpha) ==
    IF edge_alpha \notin Range(s.edge_attributes)
    THEN EdgesRendered([s EXCEPT !.edge_properties = t], NoErr, ran, color, edge_alpha)
    ELSE IF ColorMapFails(t[edge_alpha])
    THEN EdgesRendered([s EXCEPT !.edge_properties = t], "EmptyDomain", ran, "", "")
    ELSE EdgesRendered([s EXCEPT !.edge_properties =
                           WithColumn(t, "_edge_alpha",
                                      ColorMapMap("numeric", t[edge_alpha]))],
                       NoErr, ran, color, "_edge_alpha")

\* The colour resolution, given the attribute columns `cols`.
EdgeColor(s, ran, cols, edge_color, edge_alpha) ==
    IF cols.err # NoErr
    THEN EdgesRendered([s EXCEPT !.edge_properties = cols.table], cols.err, ran, "", "")
    ELSE IF edge_color \notin Range(s.edge_attributes)
    THEN EdgeAlpha(s, ran, cols.table, edge_color, edge_alpha)
    ELSE IF ColorMapFails(cols.table[edge_color])
    THEN EdgesRendered([s EXCEPT !.edge_properties = cols.table],
                       "EmptyDomain", ran, "", "")
    ELSE EdgeAlpha(s, ran,
                   WithColumn(cols.table, "_colormap",
                              ColorMapMap("viridis", cols.table[edge_color])),
                   "_colormap", edge_alpha)

\* _render_edges once self._edges is set: the table, then its colours.
EdgeTable(s, ran, edge_color, edge_alpha) ==
    EdgeColor(s, ran,
              EdgeAttrColumns(s.graph, s.edge_attributes, 1,
                  EdgeIdentityColumns(s.graph, EdgeCoordinateTable(s.edges))),
              edge_color, edge_alpha)

\* "self._edges = self.gen_edge_coordinates()", c being what the call gave.
EdgesWith(c, edge_color, edge_alpha) ==
    IF c.r.err # NoErr
    THEN EdgesRendered(c.r.self, c.r.err, c.r.solverRan, "", "")
    ELSE EdgeTable([c.r.self EXCEPT !.edges = c.val], c.r.solverRan,
                   edge_color, edge_alpha)

render_edges(s, edge_color, edge_alpha, seed) ==
    IF ~s.edges.set
    THEN EdgesWith(gen_edge_coordinates(s, seed), edge_color, edge_alpha)
    ELSE EdgeTable(s, FALSE, edge_color, edge_alpha)

-----------------------------------------------------------------------------
(* BokehGraph._render_nodes                                                *)

\* nodes[n][attr] raises KeyError for a node the graph does not have and
\* for an attribute the node does not have.
NodeColumnRaises(g, attr, rows) ==
    \E i \in DOMAIN rows :
        rows[i] \notin NodeSet(g) \/ attr \notin DOMAIN g.ndata[rows[i]]

\* [nodes[n][attr] for n in rows]
NodeColumn(g, attr, rows) == [i \in DOMAIN rows |-> g.ndata[rows[i]][attr]]

RECURSIVE NodeAttrColumns(_, _, _, _, _, _, _)
\* for attr in attrs: skip it when hover is off and it is not the colour
\* attribute, else table[attr] = [nodes[n][attr] for n in rows]
NodeAttrColumns(g, attrs, i, rows, hover, node_color, table) ==
    IF i > Len(attrs) THEN [table |-> table, err |-> NoErr]
    ELSE IF ~hover /\ attrs[i] # node_color
    THEN NodeAttrColumns(g, attrs, i + 1, rows, hover, node_color, table)
    ELSE IF NodeColumnRaises(g, attrs[i], rows)
    THEN [table |-> table, err |-> "KeyError"]
    ELSE NodeAttrColumns(g, attrs, i + 1, rows, hover, node_color,
                         WithColumn(table, attrs[i], NodeColumn(g, attrs[i], rows)))

\* The coordinate columns of the cached nodes `ns`, the identity column
\* being called `id`.
CoordinateTable(ns, id) ==
    [col \in {"xs", "ys", id} |->
        IF col = "xs" THEN [i \in DOMAIN ns |-> ns[i].x]
        ELSE IF col = "ys" THEN [i \in DOMAIN ns |-> ns[i].y]
        ELSE [i \in DOMAIN ns |-> ns[i].name]]

\* nodes_lv1, nodes_lv0 = nx.bipartite.sets(self.graph)
PartitionSets(sets) == [nodes_lv1 |-> sets.X, nodes_lv0 |-> sets.Y]

\* The nodes the attribute columns of a bipartite table are read for:
\* "for n in nodes_lvX", an iteration over a set.
PartitionRows(S) == SortedSeq(S)

\* The rows of the cached nodes that go to the lv0 table (lv = 0) and to
\* the lv1 table (lv = 1): "if node.name in nodes_lv0 ... else ...".
PartitionNodes(ns, nodes_lv0, lv) ==
    SelectSeq(ns, LAMBDA n : (n.name \in nodes_lv0) = (lv = 0))

\* The colour key handed to the two scatter calls: the variable `color`
\* as the colour resolution leaves it.
GlyphColors(s, node_color) ==
    LET first == IF node_color \in Range(s.node_attributes_lv0)
                 THEN "_colormap" ELSE node_color
        last  == IF node_color \in Range(s.node_attributes_lv1)
                 THEN "_colormap" ELSE node_color
    IN  IF s.bipartite = 1 THEN [lv0 |-> last, lv1 |-> last]
        ELSE [lv0 |-> first, lv1 |-> ""]

\* What _render_nodes leaves behind: the instance, the exception if any,
\* whether a solver ran, and the colour key of each node glyph.
NodesRendered(s, err, ran, colors) ==
    [self |-> s, err |-> err, solverRan |-> ran, colors |-> colors]

NoColors == [lv0 |-> "", lv1 |-> ""]

\* table["_colormap"] = colormap.map(table[node_color]) when node_color
\* is one of `attrs`, else the table as it is.
WithColormap(table, attrs, node_color) ==
    IF node_color \in Range(attrs)
    THEN WithColumn(table, "_colormap", ColorMapMap("Category20", table[node_color]))
    ELSE table

ColormapRaises(table, attrs, node_color) ==
    node_color \in Range(attrs) /\ ColorMapFails(table[node_color])

\* The colour resolution and the scatter calls, given the attribute
\* columns of the two tables.
NodeColor(s, ran, cols0, cols1, node_color) ==
    IF cols0.err # NoErr \/ cols1.err # NoErr
    THEN NodesRendered([s EXCEPT !.node_properties_lv0 = cols0.table,
                                 !.node_properties_lv1 = cols1.table],
                       IF cols0.err # NoErr THEN cols0.err ELSE cols1.err,
                       ran, NoColors)
    ELSE IF ColormapRaises(cols0.table, s.node_attributes_lv0, node_color)
    THEN NodesRendered([s EXCEPT !.node_properties_lv0 = cols0.table,
                                 !.node_properties_lv1 = cols1.table],
                       "EmptyDomain", ran, NoColors)
    ELSE IF s.bipartite = 1
            /\ ColormapRaises(cols1.table, s.node_attributes_lv1, node_color)
    THEN NodesRendered([s EXCEPT !.node_properties_lv0 =
                               WithColormap(cols0.table, s.node_attributes_lv0, node_color),
                                 !.node_properties_lv1 = cols1.table],
                       "EmptyDomain", ran, NoColors)
    ELSE NodesRendered([s EXCEPT
                          !.node_properties_lv0 =
                               WithColormap(cols0.table, s.node_attributes_lv0, node_color),
                          !.node_properties_lv1 =
                               IF s.bipartite = 1
                               THEN WithColormap(cols1.table, s.node_attributes_lv1,
                                                 node_color)
                               ELSE cols1.table],
                       NoErr, ran, GlyphColors(s, node_color))

\* The second attribute loop (bipartite only), given the first one's
\* result cols0 and the coordinate table base1 of lv1.
NodeColumnsLv1(s, ran, cols0, base1, rows1, node_color) ==
    NodeColor(s, ran, cols0,
              IF s.bipartite = 1 /\ cols0.err = NoErr
              THEN NodeAttrColumns(s.graph, s.node_attributes_lv1, 1, rows1,
                                   s.hover_nodes, node_color, base1)
              ELSE [table |-> base1, err |-> NoErr],
              node_color)

\* The bipartite branch, given the two node sets.
NodeTablesBipartite(s, ran, part, node_color) ==
    NodeColumnsLv1(s, ran,
        NodeAttrColumns(s.graph, s.node_attributes_lv0, 1,
                        PartitionRows(part.nodes_lv0), s.hover_nodes, node_color,
                        CoordinateTable(PartitionNodes(s.nodes, part.nodes_lv0, 0),
                                        "names")),
        CoordinateTable(PartitionNodes(s.nodes, part.nodes_lv0, 1), "names"),
        PartitionRows(part.nodes_lv1), node_color)

\* The other branch: one table, its rows the cached nodes in their order.
NodeTableSingle(s, ran, node_color) ==
    NodeColumnsLv1(s, ran,
        NodeAttrColumns(s.graph, s.node_attributes_lv0, 1,
                        [i \in DOMAIN s.nodes |-> s.nodes[i].name],
                        s.hover_nodes, node_color,
                        CoordinateTable(s.nodes, "_node")),
        s.node_properties_lv1, << >>, node_color)

\* "if self.bipartite:" with the result of nx.bipartite.sets
NodeTablesWith(s, ran, sets, node_color) ==
    IF sets.err # NoErr THEN NodesRendered(s, sets.err, ran, NoColors)
    ELSE NodeTablesBipartite(s, ran, PartitionSets(sets), node_color)

\* _render_nodes once self._nodes is set.
NodeTables(s, ran, node_color) ==
    IF s.bipartite = 1
    THEN NodeTablesWith(s, ran, bipartite_sets(s.graph), node_color)
    ELSE NodeTableSingle(s, ran, node_color)

\* "self._nodes = self.gen_node_coordinates()", c being what the call gave.
NodesWith(c, node_color) ==
    IF c.r.err # NoErr
    THEN NodesRendered(c.r.self, c.r.err, c.r.solverRan, NoColors)
    ELSE NodeTables([c.r.self EXCEPT !.nodes = c.val], c.r.solverRan, node_color)

render_nodes(s, node_color, seed) ==
    IF s.nodes = << >>
    THEN NodesWith(gen_node_coordinates(s, seed), node_color)
    ELSE NodeTables(s, FALSE, node_color)

-----------------------------------------------------------------------------
(* BokehGraph.render and BokehGraph.draw                                   *)

NoFigure == [edge_color |-> "", edge_alpha |-> "", lv0_color |-> "", lv1_color |-> ""]

Rendered(s, err, ran, figure) ==
    [self |-> s, err |-> err, solverRan |-> ran, figure |-> figure]

\* The end of render(), e and n being what the two steps gave.
RenderedBoth(e, n) ==
    Rendered(n.self, n.err, e.solverRan \/ n.solverRan,
             IF n.err # NoErr THEN NoFigure
             ELSE [edge_color |-> e.color, edge_alpha |-> e.alpha,
                   lv0_color |-> n.colors.lv0, lv1_color |-> n.colors.lv1])

\* render() after _render_edges gave e: the nodes are rendered only when
\* the edges did not raise.
RenderNodesAfter(e, node_color, seed) ==
    IF e.err # NoErr THEN Rendered(e.self, e.err, e.solverRan, NoFigure)
    ELSE RenderedBoth(e, render_nodes(e.self, node_color, seed))

\* render(): the edges, then the nodes; the figure is returned only when
\* neither raised.
render(s, node_color, edge_color, edge_alpha, seed) ==
    RenderNodesAfter(render_edges(s, edge_color, edge_alpha, seed), node_color, seed)

\* draw(): render(), then self.show(figure).
draw(s, node_color, edge_color, edge_alpha, seed) ==
    render(s, node_color, edge_color, edge_alpha, seed)

-----------------------------------------------------------------------------
(* The state: one BokehGraph instance and what its caller observes.        *)

VARIABLES
    self,       \* the instance's fields
    shown,      \* the figure the last successful draw() handed to show()
    lastCall,   \* "new", "layout" or "draw": the call that just ended
    lastArgs,   \* the arguments of that call
    lastErr,    \* the exception it raised, NoErr when it returned
    solverRan   \* whether it invoked a position solver

vars == <<self, shown, lastCall, lastArgs, lastErr, solverRan>>

NoArgs == [given |-> FALSE, layout |-> << >>, seed |-> 0,
           node_color |-> "", edge_color |-> "", edge_alpha |-> ""]

\* The position a caller's own layout gives node n.
CallerPosition(n) == <<100 + n, n>>

Reverse(q) == [i \in DOMAIN q |-> q[Len(q) + 1 - i]]

\* The mappings a caller passes as layout(layout=M): empty, every node (in
\* reverse order), every node and one key that is no node, every node but
\* the last.
CallerLayouts(g) ==
    LET full == [i \in DOMAIN g.nodes |-> <<g.nodes[i], CallerPosition(g.nodes[i])>>]
    IN  { << >>,
          Reverse(full),
          Append(full, <<0, CallerPosition(0)>>),
          SubSeq(full, 1, Len(full) - 1) }

\* layout(seed=s), and layout(layout=M) with the seed left to chance.
LayoutArgs(g) ==
    {[NoArgs EXCEPT !.seed = sd] : sd \in Seeds}
    \cup {[NoArgs EXCEPT !.given = TRUE, !.layout = M] : M \in CallerLayouts(g)}

\* The seeds a layout() call can end up using: the one it was given; any,
\* when none was given and a solver may run; none matters for a mapping
\* that is installed as it is.
SeedsOf(a) ==
    IF a.seed \in Seeds THEN {a.seed}
    ELSE IF a.layout = << >> THEN Seeds
    ELSE {CHOOSE sd \in Seeds : TRUE}

\* The seeds a draw() can end up using: any when it has to compute the
\* layout, which it does with seed=None; none matters otherwise.
LazySeeds(s) ==
    IF s.layout = << >> THEN Seeds ELSE {CHOOSE sd \in Seeds : TRUE}

\* draw() with its defaults, and draw() colouring by attribute.
DrawArgs ==
    { [NoArgs EXCEPT !.node_color = "firebrick", !.edge_color = "navy",
                     !.edge_alpha = "0.3"],
      [NoArgs EXCEPT !.node_color = "w", !.edge_color = "ew",
                     !.edge_alpha = "ew"] }

Init ==
    \E g \in Graphs, hover \in BOOLEAN :
        /\ ~InitRaises(g)
        /\ self = NewBokehGraph(g, hover)
        /\ shown = NoFigure
        /\ lastCall = "new"
        /\ lastArgs = NoArgs
        /\ lastErr = NoErr
        /\ solverRan = FALSE

\* plot.layout(), plot.layout(seed=...) or plot.layout(layout=M)
CallLayout ==
    \E a \in LayoutArgs(self.graph) : \E seed \in SeedsOf(a) :
        LET r == layout(self, a.layout, seed)
        IN  /\ self' = r.self
            /\ lastCall' = "layout"
            /\ lastArgs' = a
            /\ lastErr' = r.err
            /\ solverRan' = r.solverRan
            /\ UNCHANGED shown

\* plot.draw(...)
CallDraw ==
    \E a \in DrawArgs, seed \in LazySeeds(self) :
        LET r == draw(self, a.node_color, a.edge_color, a.edge_alpha, seed)
        IN  /\ self' = r.self
            /\ lastCall' = "draw"
            /\ lastArgs' = a
            /\ lastErr' = r.err
            /\ solverRan' = r.solverRan
            /\ shown' = IF r.err = NoErr THEN r.figure ELSE shown

Next == CallLayout \/ CallDraw

Spec == Init /\ [][Next]_vars

-----------------------------------------------------------------------------
(* Vocabulary of the properties.                                           *)

DrawReturned == lastCall = "draw" /\ lastErr = NoErr

IsBipartite == self.bipartite = 1

\* The layout in effect names exactly the nodes of the graph.
LayoutCoversGraph == Keys(self.layout) = NodeSet(self.graph)

\* Every column of table t has n entries.
AllColumnsHave(t, n) == \A c \in DOMAIN t : Len(t[c]) = n

\* The identity column of a node table.
IdColumn(t) == IF "names" \in DOMAIN t THEN "names" ELSE "_node"

\* The nodes whose side indicator is `side`.
SideNodes(g, side) ==
    {n \in NodeSet(g) : "bipartite" \in DOMAIN g.ndata[n] /\ g.ndata[n]["bipartite"] = side}

\* A two-colouring: no edge joins two nodes of one colour.
TwoColorable(g) ==
    \E f \in [NodeSet(g) -> {0, 1}] : \A i \in DOMAIN g.edges :
        f[g.edges[i][1]] # f[g.edges[i][2]]

-----------------------------------------------------------------------------
(* C1. After a successful draw, every column of the edge table has one     *)
(* entry per edge of the graph, and every column of a node table has one   *)
(* entry per node of the graph (of the table's node set when bipartite),   *)
(* whatever layout is in effect; stated here for the layouts that name     *)
(* nodes of the graph only.                                                *)
C1_RowCounts ==
    (DrawReturned /\ Keys(self.layout) \subseteq NodeSet(self.graph)) =>
        /\ AllColumnsHave(self.edge_properties, number_of_edges(self.graph))
        /\ ~IsBipartite =>
              AllColumnsHave(self.node_properties_lv0, number_of_nodes(self.graph))
        /\ IsBipartite =>
              /\ AllColumnsHave(self.node_properties_lv0,
                     Cardinality(PartitionSets(bipartite_sets(self.graph)).nodes_lv0))
              /\ AllColumnsHave(self.node_properties_lv1,
                     Cardinality(PartitionSets(bipartite_sets(self.graph)).nodes_lv1))

(* C2. After a successful draw each node table resolves its colour key on  *)
(* its own: node_color in the table's catalog gives a _colormap column and *)
(* the glyph key "_colormap"; otherwise no _colormap column and the        *)
(* literal node_color as the glyph key.                                    *)
ColorKeyResolved(table, catalog, key) ==
    IF lastArgs.node_color \in Range(catalog)
    THEN "_colormap" \in DOMAIN table /\ key = "_colormap"
    ELSE "_colormap" \notin DOMAIN table /\ key = lastArgs.node_color

\* C2: after a successful draw every node table has its colour key resolved
\* against its own catalog.
C2_IndependentColorKeys ==
    DrawReturned =>
        /\ ColorKeyResolved(self.node_properties_lv0, self.node_attributes_lv0,
                            shown.lv0_color)
        /\ IsBipartite =>
              ColorKeyResolved(self.node_properties_lv1, self.node_attributes_lv1,
                               shown.lv1_color)

(* C3. After a successful draw (the layout naming exactly the graph's      *)
(* nodes), row i of every column of a node table belongs to the node the   *)
(* identity column names in row i, and row i of every column of the edge   *)
(* table belongs to the i-th edge.                                         *)
NodeRowAligned(t, i) ==
    LET n == t[IdColumn(t)][i]
        g == self.graph
    IN  /\ HasKey(self.layout, n)
        /\ t["xs"][i] = Lookup(self.layout, n)[1]
        /\ t["ys"][i] = Lookup(self.layout, n)[2]
        /\ \A a \in (DOMAIN t) \cap Range(AttrOrder) :
              /\ i \in DOMAIN t[a]
              /\ n \in NodeSet(g)
              /\ a \in DOMAIN g.ndata[n]
              /\ t[a][i] = g.ndata[n][a]
        /\ "_colormap" \in DOMAIN t =>
              /\ i \in DOMAIN t["_colormap"]
              /\ n \in NodeSet(g)
              /\ lastArgs.node_color \in DOMAIN g.ndata[n]
              /\ t["_colormap"][i] =
                    ColorMapMap("Category20", <<g.ndata[n][lastArgs.node_color]>>)[1]

NodeTableAligned(t) == \A i \in DOMAIN t[IdColumn(t)] : NodeRowAligned(t, i)

EdgeRowAligned(t, i) ==
    LET g == self.graph
        e == g.edges[i]
    IN  /\ t["xs"][i] = <<Lookup(self.layout, e[1])[1], Lookup(self.layout, e[2])[1]>>
        /\ t["ys"][i] = <<Lookup(self.layout, e[1])[2], Lookup(self.layout, e[2])[2]>>
        /\ t["_u"][i] = e[1]
        /\ t["_v"][i] = e[2]
        /\ \A a \in (DOMAIN t) \cap Range(AttrOrder) : t[a][i] = g.edata[i][a]

\* C3: after a successful draw every row of every table belongs to one node
\* (one edge).
C3_RowsAligned ==
    (DrawReturned /\ LayoutCoversGraph) =>
        /\ NodeTableAligned(self.node_properties_lv0)
        /\ IsBipartite => NodeTableAligned(self.node_properties_lv1)
        /\ \A i \in DOMAIN self.graph.edges : EdgeRowAligned(self.edge_properties, i)

(* C4. layout() clears the cached node and edge coordinates; the cached   *)
(* coordinates a draw leaves are those of the layout in effect; a draw     *)
(* that finds a layout keeps it and invokes no solver; and a draw that     *)
(* follows a draw leaves the layout and both caches as they were.          *)
CachesCleared(s) == s.nodes = << >> /\ s.edges = NoEdgeCoordinates

CachesOfLayout(s) ==
    /\ s.edges.set =>
          /\ ~EdgeCoordinatesRaise(s.graph, s.layout)
          /\ s.edges = EdgeCoordinates(s.graph, s.layout)
    /\ s.nodes # << >> => s.nodes = NodeCoordinates(s.layout)

\* The rows <<node, x, y>> of a node table.
TableRows(t) ==
    {<<t[IdColumn(t)][i], t["xs"][i], t["ys"][i]>> : i \in DOMAIN t["xs"]}

\* The tables a draw built hold the cached coordinates.
TablesOfCaches(s) ==
    /\ s.edges.set /\ s.nodes # << >> /\ s.layout # << >>
    /\ s.edge_properties["xs"] = s.edges.xs
    /\ s.edge_properties["ys"] = s.edges.ys
    /\ TableRows(s.node_properties_lv0)
         \cup (IF s.bipartite = 1 THEN TableRows(s.node_properties_lv1) ELSE {})
       = {<<s.nodes[i].name, s.nodes[i].x, s.nodes[i].y>> : i \in DOMAIN s.nodes}

C4_Step ==
    /\ lastCall' = "layout" => CachesCleared(self')
    /\ lastCall' = "draw" =>
          /\ CachesOfLayout(self')
          /\ self.layout # << >> => (self'.layout = self.layout /\ ~solverRan')
          /\ lastErr' = NoErr => TablesOfCaches(self')
    /\ (lastCall = "draw" /\ lastCall' = "draw") =>
          /\ self'.layout = self.layout
          /\ self'.nodes = self.nodes
          /\ self'.edges = self.edges
          /\ ~solverRan'

\* C4: every step clears the caches on layout(), leaves the caches and the
\* tables of a draw those of the layout in effect, and repeats a draw
\* without a solver call or a change of layout and caches.
C4_LayoutInvalidatesCaches == [][C4_Step]_vars

\* A layout() call that came after a draw: the tables of the draw are
\* still there, the caches are gone.
C4_Witness ==
    /\ lastCall = "layout"
    /\ self.layout # << >>
    /\ "xs" \in DOMAIN self.edge_properties
    /\ "xs" \in DOMAIN self.node_properties_lv0
    /\ CachesCleared(self)

(* C5. On a graph without nodes layout() and draw() return normally, and   *)
(* the tables a draw builds have empty columns only.                       *)
C5_EmptyGraphCompletes ==
    (number_of_nodes(self.graph) = 0 /\ lastCall \in {"layout", "draw"}) =>
        /\ lastErr = NoErr
        /\ lastCall = "draw" =>
              /\ AllColumnsHave(self.edge_properties, 0)
              /\ AllColumnsHave(self.node_properties_lv0, 0)

(* C6. On a graph with nodes and no edge, draw() returns normally; the     *)
(* graph is not bipartite, the edge table has empty xs and ys and no _u    *)
(* and _v, and the node table has one row per node.  Stated here for the   *)
(* layouts that name exactly the graph's nodes.                            *)
C6_NoEdgesDrawCompletes ==
    (/\ number_of_nodes(self.graph) >= 1
     /\ number_of_edges(self.graph) = 0
     /\ lastCall = "draw"
     /\ LayoutCoversGraph) =>
        /\ lastErr = NoErr
        /\ ~IsBipartite
        /\ DOMAIN self.edge_properties = {"xs", "ys"}
        /\ AllColumnsHave(self.edge_properties, 0)
        /\ AllColumnsHave(self.node_properties_lv0, number_of_nodes(self.graph))

(* C7. When an attribute of a catalog is absent on some node (edge), a     *)
(* draw still returns normally and every column has one entry per row of   *)
(* its table.  Stated here for the layouts that name exactly the graph's   *)
(* nodes.                                                                  *)
Heterogeneous(g) ==
    \/ \E n \in NodeSet(g), m \in NodeSet(g) : DOMAIN g.ndata[n] # DOMAIN g.ndata[m]
    \/ \E i \in DOMAIN g.edata, j \in DOMAIN g.edata : DOMAIN g.edata[i] # DOMAIN g.edata[j]

\* C7: a draw on a graph with heterogeneous attributes returns normally
\* with full columns.
C7_HeterogeneousDrawCompletes ==
    (Heterogeneous(self.graph) /\ lastCall = "draw" /\ LayoutCoversGraph
        /\ (IsBipartite => is_connected(self.graph))) =>
        /\ lastErr = NoErr
        /\ AllColumnsHave(self.edge_properties, number_of_edges(self.graph))
        /\ AllColumnsHave(self.node_properties_lv0,
                          Len(self.node_properties_lv0["xs"]))

(* C8. layout(layout=M) invokes no solver and stores exactly M, for every  *)
(* mapping M, the empty one included.  Stated here for the graphs that     *)
(* have a node.                                                            *)
C8_CallerLayoutStored ==
    (lastCall = "layout" /\ lastArgs.given /\ number_of_nodes(self.graph) >= 1) =>
        /\ ~solverRan
        /\ lastErr = NoErr
        /\ self.layout = lastArgs.layout

(* C9. The bipartite flag is set exactly when the graph is two-colourable  *)
(* and has an edge, and no call changes the flag or the graph.             *)
FlagAsSpecified ==
    IsBipartite <=> (TwoColorable(self.graph) /\ number_of_edges(self.graph) > 0)

\* C9: the flag is always "two-colourable with an edge", and no step
\* changes the flag or the graph.
C9_BipartiteFlag ==
    /\ []FlagAsSpecified
    /\ [][self'.bipartite = self.bipartite /\ self'.graph = self.graph]_vars

\* A graph without edges, hence not bipartite, after a draw.
C9_Witness ==
    /\ DrawReturned
    /\ number_of_nodes(self.graph) >= 2
    /\ number_of_edges(self.graph) = 0
    /\ ~IsBipartite

(* C10. On a bipartite graph the rows of the lv0 table are the nodes whose *)
(* side indicator is 0 and the rows of the lv1 table those whose side      *)
(* indicator is 1, the node sets the two catalogs were derived from.       *)
(* Stated here for the layouts that name exactly the graph's nodes.        *)
C10_TablesFollowSides ==
    (DrawReturned /\ IsBipartite /\ LayoutCoversGraph) =>
        /\ Range(self.node_properties_lv0["names"]) = SideNodes(self.graph, 0)
        /\ Range(self.node_properties_lv1["names"]) = SideNodes(self.graph, 1)

=============================================================================
